---- MODULE Spec2Model ----
(***************************************************************************)
(* Model of the translate-dir command line front end (src/main.rs).       *)
(*                                                                         *)
(* One invocation of the binary is: load the project, run                  *)
(* handle_project_action on one ProjectAction, exit.  The project is       *)
(* persisted by the library after every successful mutation, so the        *)
(* project of one invocation is the project the next one loads.            *)
(*                                                                         *)
(* The state is a record `st` (the running process and the project);      *)
(* `tw` is the same invocation run on the same project in an environment   *)
(* where GOOGLE_API_KEY is in the opposite state, stepped in lockstep, so   *)
(* that statements comparing the two runs are state predicates.  The        *)
(* variable becomes part of a process's state when the process reads it.    *)
(*                                                                         *)
(* File names and patterns are sequences of one-character strings.         *)
(***************************************************************************)
EXTENDS Integers, Sequences, FiniteSets, TLC

VARIABLES st, tw

vars == <<st, tw>>

(* ------------------------------ bounds -------------------------------- *)

\* longest list of patterns given to one mark command
MaxPatterns == 2

\* number of invocations of the binary on one project
MaxInvocations == 4

(* --------------------------- the environment -------------------------- *)

Languages == {"en", "fr"}

FileA == <<"a">>
FileB == <<"b">>
FileO == <<"o">>
FileN == <<"n">>

\* The working directory, in the (alphabetical) order read_dir entries are
\* yielded by the glob iterator.  FileN does not exist.
DirListing == <<FileA, FileB, FileO>>

Existing == {DirListing[i] : i \in DOMAIN DirListing}

\* Existing files lying under the source directory (FileO is outside it).
InSource == {FileA, FileB}

PathArgs == {FileA, FileB, FileO, FileN}

\* The patterns a user passes in this model.  None has two adjacent stars.
\* "[abo]*" matches every file of the directory, "a" exists, "n" does not,
\* "[" is rejected by glob, "{a" matches nothing.
PGlob == <<"[", "a", "b", "o", "]", "*">>
PLitA == <<"a">>
PLitN == <<"n">>
PBad == <<"[">>
PBrace == <<"{", "a">>

PatternSet == {PGlob, PLitA, PLitN, PBad, PBrace}

PatternLists == UNION {[1..n -> PatternSet] : n \in 1..MaxPatterns}

(* ------------------------ glob (crate `glob`) -------------------------- *)

Min(S) == CHOOSE x \in S : \A y \in S : x <= y

\* str::contains(c)
Contains(s, c) == \E i \in DOMAIN s : s[i] = c

\* Pattern::new: a '[' must be closed by a ']' at least two characters on.
RECURSIVE ValidFrom(_, _)
ValidFrom(p, i) ==
    IF i > Len(p) THEN TRUE
    ELSE IF p[i] = "["
         THEN LET js == {j \in (i + 2)..Len(p) : p[j] = "]"}
              IN  js # {} /\ ValidFrom(p, Min(js) + 1)
         ELSE ValidFrom(p, i + 1)

PatternValid(p) == ValidFrom(p, 1)

\* Pattern::matches on one path component.  '{' is an ordinary character for
\* the glob crate.
RECURSIVE Matches(_, _)
Matches(p, n) ==
    IF p = <<>> THEN n = <<>>
    ELSE IF Head(p) = "*"
         THEN Matches(Tail(p), n) \/ (n # <<>> /\ Matches(p, Tail(n)))
    ELSE IF Head(p) = "?"
         THEN n # <<>> /\ Matches(Tail(p), Tail(n))
    ELSE IF Head(p) = "["
         THEN LET j == Min({k \in 3..Len(p) : p[k] = "]"})
              IN  /\ n # <<>>
                  /\ Head(n) \in {p[k] : k \in 2..(j - 1)}
                  /\ Matches(SubSeq(p, j + 1, Len(p)), Tail(n))
    ELSE n # <<>> /\ Head(n) = Head(p) /\ Matches(Tail(p), Tail(n))

\* A component with a wildcard makes the iterator read the directory; one
\* without is looked up directly.
IsSpecial(p) == Contains(p, "*") \/ Contains(p, "?") \/ Contains(p, "[")

OkEntry(f) == [ok |-> TRUE, path |-> f]
ErrEntry == [ok |-> FALSE, path |-> <<>>]

\* The entries the iterator returned by glob(p) yields, for a valid pattern:
\* a GlobError when the directory cannot be read, else the matching paths.
GlobEntries(p, dirReadable) ==
    IF IsSpecial(p)
    THEN IF dirReadable
         THEN LET hit == SelectSeq(DirListing, LAMBDA f : Matches(p, f))
              IN  [i \in DOMAIN hit |-> OkEntry(hit[i])]
         ELSE <<ErrEntry>>
    ELSE IF p \in Existing THEN <<OkEntry(p)>> ELSE <<>>

(* ------------- the project library (translate_dir_lib) ----------------- *)

NoSource == "none"

EmptyProject ==
    [src |-> NoSource, langs |-> <<>>, manifest |-> <<>>,
     mirrors |-> {}, translated |-> {}]

Range(s) == {s[i] : i \in DOMAIN s}

Ok(proj) == [err |-> "", proj |-> proj]
Fail(e, proj) == [err |-> e, proj |-> proj]

\* The manifest with `path` tagged `status`: an entry already there is
\* overwritten in place, a new one is appended.
Tagged(manifest, path, status) ==
    IF \E i \in DOMAIN manifest : manifest[i].path = path
    THEN [i \in DOMAIN manifest |->
            IF manifest[i].path = path
            THEN [path |-> path, status |-> status]
            ELSE manifest[i]]
    ELSE Append(manifest, [path |-> path, status |-> status])

\* Project::make_translatable_file / make_untranslatable_file
Mark(proj, path, status) ==
    IF proj.src = NoSource THEN Fail("NoSourceDir", proj)
    ELSE IF path \notin Existing THEN Fail("FileNotFound", proj)
    ELSE IF path \notin InSource THEN Fail("NotInSourceDirectory", proj)
    ELSE Ok([proj EXCEPT !.manifest = Tagged(@, path, status)])

\* Project::get_translatable_files
ListTranslatableFiles(proj) ==
    LET tr == SelectSeq(proj.manifest, LAMBDA e : e.status = "translatable")
    IN  [i \in DOMAIN tr |-> tr[i].path]

\* Project::set_source_dir
SetSourceDir(proj, lang) ==
    IF proj.src # NoSource THEN Fail("SourceAlreadySet", proj)
    ELSE Ok([proj EXCEPT !.src = lang])

\* Project::add_lang
AddLang(proj, lang) ==
    IF lang = proj.src \/ lang \in Range(proj.langs)
    THEN Fail("DuplicateLanguage", proj)
    ELSE Ok([proj EXCEPT !.langs = Append(@, lang)])

\* Project::remove_lang
RemoveLang(proj, lang) ==
    IF lang \notin Range(proj.langs) THEN Fail("LanguageNotFound", proj)
    ELSE Ok([proj EXCEPT !.langs = SelectSeq(@, LAMBDA l : l # lang)])

\* Project::sync_files: every untranslatable file gets a mirror in every
\* target directory; nothing is removed.
SyncFiles(proj) ==
    IF proj.src = NoSource THEN Fail("NoSourceDir", proj)
    ELSE Ok([proj EXCEPT !.mirrors =
                @ \cup {<<l, e.path>> : l \in Range(proj.langs),
                                        e \in {x \in Range(proj.manifest) :
                                                 x.status = "untranslatable"}}])

ProviderOutcomes == {"ok", "Transient", "Permanent"}

\* Project::translate_file, `provider` being what the translation provider
\* answers if it is asked.
TranslateOne(proj, path, lang, provider) ==
    IF path \notin Range(ListTranslatableFiles(proj))
    THEN Fail("NotTranslatable", proj)
    ELSE IF lang \notin Range(proj.langs)
    THEN Fail("UnknownTargetLanguage", proj)
    ELSE IF provider # "ok" THEN Fail(provider, proj)
    ELSE Ok([proj EXCEPT !.translated = @ \cup {<<lang, path>>}])

\* The aggregate Project::translate_all returns from the per-file outcomes.
Aggregate(jobs) ==
    LET failed == SelectSeq(jobs, LAMBDA j : j.outcome # "")
    IN  [successes |-> Len(jobs) - Len(failed),
         failures |-> Len(failed),
         failed_paths |-> [i \in DOMAIN failed |-> failed[i].source_path]]

(* ------------------------- the process state --------------------------- *)

NoAction == [kind |-> "none", lang |-> "", path |-> <<>>, patterns |-> <<>>]

Act(kind, lang, path, patterns) ==
    [kind |-> kind, lang |-> lang, path |-> path, patterns |-> patterns]

\* The ProjectAction values of the command line.
ProjectActions ==
    {Act("SetSource", l, <<>>, <<>>) : l \in Languages}
    \cup {Act("AddTargetLang", l, <<>>, <<>>) : l \in Languages}
    \cup {Act("RemoveTargetLang", l, <<>>, <<>>) : l \in Languages}
    \cup {Act(k, "", <<>>, <<>>) : k \in {"Sync", "ListTranslatable", "Info"}}
    \cup {Act(k, "", <<>>, ps) :
            k \in {"MarkTranslatable", "MarkUntranslatable"}, ps \in PatternLists}
    \cup {Act("TranslateFile", l, f, <<>>) : l \in Languages, f \in PathArgs}
    \cup {Act("TranslateAll", l, <<>>, <<>>) : l \in Languages}

\* matches!(action, TranslateFile { .. } | TranslateAll { .. })
IsTranslate(action) == action.kind \in {"TranslateFile", "TranslateAll"}

IsMark(action) == action.kind \in {"MarkTranslatable", "MarkUntranslatable"}

\* action_name, which is also the status the closure passed as action_fn sets
ActionName(action) ==
    IF action.kind = "MarkTranslatable" THEN "translatable" ELSE "untranslatable"

\* One line written to stdout or stderr: what it reports, the position of the
\* pattern being processed (0 outside the pattern loop), the path or pattern
\* it names.
Line(kind, pat, path) == [kind |-> kind, pat |-> pat, path |-> path]

\* A freshly started process, project::load having returned `proj`, before
\* handle_project_action.  `loaded` keeps the project as it was loaded; `key`
\* is what the process has seen of GOOGLE_API_KEY.
Process(proj, n, action, readable) ==
    [project |-> proj, loaded |-> proj, invocations |-> n, pc |-> "gate",
     action |-> action,
     key |-> "unread", dirReadable |-> readable, env_reads |-> 0,
     success_count |-> 0, error_count |-> 0, no_match_patterns |-> <<>>,
     pidx |-> 0, pattern_matched_at_least_one_file |-> FALSE,
     entries |-> <<>>, eidx |-> 0, log |-> <<>>, exit |-> -1,
     todo |-> <<>>, jobs |-> <<>>, result |-> <<>>]

\* exit(code), or the return from main when code is 0.
Exited(s, code) == [s EXCEPT !.pc = "exited", !.exit = code]

Say(s, line) == [s EXCEPT !.log = Append(@, line)]

(* ---------------------- handle_project_action -------------------------- *)

\* Mutant: the check is made for every action.
AuthMissingAnyAction(action, key) == ~key

\* Whether the credential check ends the invocation.
AuthMissing(action, key) == IsTranslate(action) /\ ~key

\* std::env::var("GOOGLE_API_KEY"), `key` telling whether it is set.
ReadKey(s, key) ==
    [s EXCEPT !.env_reads = @ + 1, !.key = IF key THEN "set" ELSE "unset"]

\* Mutant: the missing key is reported but the process goes on.
GateWarnsOnly(s, key) ==
    LET r == IF IsTranslate(s.action) THEN ReadKey(s, key) ELSE s
    IN  IF AuthMissing(s.action, key)
        THEN [Say(r, Line("auth_error", 0, <<>>)) EXCEPT !.pc = "dispatch"]
        ELSE [r EXCEPT !.pc = "dispatch"]

\* The check at the head of handle_project_action, in an environment where
\* the key is set or not.
Gate(s, key) ==
    LET r == IF IsTranslate(s.action) THEN ReadKey(s, key) ELSE s
    IN  IF AuthMissing(s.action, key)
        THEN Exited(Say(r, Line("auth_error", 0, <<>>)), 1)
        ELSE [r EXCEPT !.pc = "dispatch"]

\* An arm that makes one library call and prints its result.
Finish(s, res, okLine, errLine) ==
    IF res.err = ""
    THEN Exited(Say([s EXCEPT !.project = res.proj], okLine), 0)
    ELSE Exited(Say(s, errLine), 1)

SetSource(s) ==
    Finish(s, SetSourceDir(s.project, s.action.lang),
           Line("set_source_ok", 0, <<>>), Line("set_source_error", 0, <<>>))

AddTargetLang(s) ==
    Finish(s, AddLang(s.project, s.action.lang),
           Line("add_lang_ok", 0, <<>>), Line("add_lang_error", 0, <<>>))

RemoveTargetLang(s) ==
    Finish(s, RemoveLang(s.project, s.action.lang),
           Line("remove_lang_ok", 0, <<>>), Line("remove_lang_error", 0, <<>>))

Sync(s) ==
    Finish(s, SyncFiles(s.project),
           Line("sync_ok", 0, <<>>), Line("sync_error", 0, <<>>))

\* get_translatable_files does not fail in this model.
ListTranslatable(s) ==
    LET files == ListTranslatableFiles(s.project)
        head == Say(s, Line(IF files = <<>> THEN "list_empty" ELSE "list_header",
                            0, <<>>))
    IN  Exited([head EXCEPT !.log =
                   @ \o [i \in DOMAIN files |-> Line("list_file", 0, files[i])]], 0)

Info(s) == Exited(Say(s, Line("info", 0, <<>>)), 0)

TranslateFile(s, provider) ==
    Finish(Say(s, Line("translating", 0, s.action.path)),
           TranslateOne(s.project, s.action.path, s.action.lang, provider),
           Line("translate_file_ok", 0, s.action.path),
           Line("translate_file_error", 0, s.action.path))

\* proj.translate_all is entered: it works from list_translatable().
TranslateAllStart(s) ==
    [Say(s, Line("translating_all", 0, <<>>)) EXCEPT
        !.pc = "translating", !.todo = ListTranslatableFiles(s.project)]

\* Mutant: the first failure ends the submissions.
TranslateAllFileAborts(s, provider) ==
    LET path == s.todo[Len(s.jobs) + 1]
        res == TranslateOne(s.project, path, s.action.lang, provider)
        jobs == Append(s.jobs, [source_path |-> path,
                                target_language |-> s.action.lang,
                                outcome |-> res.err])
    IN  [s EXCEPT !.project = res.proj,
                  !.jobs = jobs,
                  !.todo = IF res.err = "" THEN @ ELSE SubSeq(@, 1, Len(jobs))]

\* translate_all submits the next file; its outcome is recorded as a job.
TranslateAllFile(s, provider) ==
    LET path == s.todo[Len(s.jobs) + 1]
        res == TranslateOne(s.project, path, s.action.lang, provider)
    IN  [s EXCEPT !.project = res.proj,
                  !.jobs = Append(@, [source_path |-> path,
                                      target_language |-> s.action.lang,
                                      outcome |-> res.err])]

\* translate_all returns its aggregate, as Err when a file failed; the arm
\* prints the one line and exits accordingly.
TranslateAllReturn(s) ==
    LET agg == Aggregate(s.jobs)
        r == [s EXCEPT !.result = <<agg>>]
    IN  IF agg.failures = 0
        THEN Exited(Say(r, Line("translate_all_ok", 0, <<>>)), 0)
        ELSE Exited(Say(r, Line("translate_all_error", 0, <<>>)), 1)

(* ----------------------- process_file_patterns ------------------------- *)

\* The call of process_file_patterns: the counters are initialised and the
\* loop over file_patterns begins.
MarkStart(s) == [s EXCEPT !.pc = "loop", !.pidx = 1]

\* Mutant: the Result of action_fn is dropped and success is reported.
ApplyMarkIgnoresResult(s, path, okKind, errKind) ==
    LET res == Mark(s.project, path, ActionName(s.action))
    IN  [Say(s, Line(okKind, s.pidx, path)) EXCEPT
            !.project = res.proj, !.success_count = @ + 1]

\* action_fn(proj, path) and the line reporting its result.
ApplyMark(s, path, okKind, errKind) ==
    LET res == Mark(s.project, path, ActionName(s.action))
    IN  IF res.err = ""
        THEN [Say(s, Line(okKind, s.pidx, path)) EXCEPT
                 !.project = res.proj, !.success_count = @ + 1]
        ELSE [Say(s, Line(errKind, s.pidx, path)) EXCEPT
                 !.error_count = @ + 1]

\* Mutant: no `continue` after an invalid pattern; it falls through to the
\* code after the match.
GlobPatternNoContinue(s) ==
    LET pattern_str == s.action.patterns[s.pidx]
    IN  IF PatternValid(pattern_str)
        THEN [s EXCEPT !.pattern_matched_at_least_one_file = FALSE,
                       !.entries = GlobEntries(pattern_str, s.dirReadable),
                       !.eidx = 1,
                       !.pc = "entries"]
        ELSE [Say(s, Line("invalid_pattern", s.pidx, pattern_str)) EXCEPT
                       !.pattern_matched_at_least_one_file = FALSE,
                       !.error_count = @ + 1,
                       !.entries = <<>>,
                       !.eidx = 1,
                       !.pc = "entries"]

\* Mutant: the first path of the expansion is marked while the pattern is
\* being expanded.
GlobPatternMarksFirst(s) ==
    LET pattern_str == s.action.patterns[s.pidx]
        entries == GlobEntries(pattern_str, s.dirReadable)
        eager == IF entries # <<>> /\ entries[1].ok
                 THEN Mark(s.project, entries[1].path, ActionName(s.action)).proj
                 ELSE s.project
    IN  IF PatternValid(pattern_str)
        THEN [s EXCEPT !.pattern_matched_at_least_one_file = FALSE,
                       !.entries = entries,
                       !.eidx = 1,
                       !.project = eager,
                       !.pc = "entries"]
        ELSE [Say(s, Line("invalid_pattern", s.pidx, pattern_str)) EXCEPT
                       !.pattern_matched_at_least_one_file = FALSE,
                       !.error_count = @ + 1,
                       !.pidx = @ + 1]

\* Top of the loop body: glob(&pattern_str).
GlobPattern(s) ==
    LET pattern_str == s.action.patterns[s.pidx]
    IN  IF PatternValid(pattern_str)
        THEN [s EXCEPT !.pattern_matched_at_least_one_file = FALSE,
                       !.entries = GlobEntries(pattern_str, s.dirReadable),
                       !.eidx = 1,
                       !.pc = "entries"]
        ELSE [Say(s, Line("invalid_pattern", s.pidx, pattern_str)) EXCEPT
                       !.pattern_matched_at_least_one_file = FALSE,
                       !.error_count = @ + 1,
                       !.pidx = @ + 1]

\* Mutant: the flag is set for every entry, a GlobError included.
GlobEntryFlagsErrors(s) ==
    LET entry == s.entries[s.eidx]
        next == [s EXCEPT !.eidx = @ + 1,
                          !.pattern_matched_at_least_one_file = TRUE]
    IN  IF entry.ok
        THEN ApplyMark(next, entry.path, "marked", "mark_error")
        ELSE [Say(next, Line("entry_error", s.pidx, s.action.patterns[s.pidx]))
                EXCEPT !.error_count = @ + 1]

\* One iteration of `for entry in paths`.
GlobEntry(s) ==
    LET entry == s.entries[s.eidx]
        next == [s EXCEPT !.eidx = @ + 1]
    IN  IF entry.ok
        THEN ApplyMark([next EXCEPT !.pattern_matched_at_least_one_file = TRUE],
                       entry.path, "marked", "mark_error")
        ELSE [Say(next, Line("entry_error", s.pidx, s.action.patterns[s.pidx]))
                EXCEPT !.error_count = @ + 1]

\* Mutant: the test for '{' is forgotten.
LooksLiteralNoBrace(pattern_str) ==
    /\ ~Contains(pattern_str, "*")
    /\ ~Contains(pattern_str, "?")
    /\ ~Contains(pattern_str, "[")

\* !contains('*') && !contains('?') && !contains('[') && !contains('{')
LooksLiteral(pattern_str) ==
    /\ ~Contains(pattern_str, "*")
    /\ ~Contains(pattern_str, "?")
    /\ ~Contains(pattern_str, "[")
    /\ ~Contains(pattern_str, "{")

\* Mutant: a pattern without a match is put at the front of the list.
AfterGlobPushesFront(s) ==
    LET pattern_str == s.action.patterns[s.pidx]
        done == IF ~s.pattern_matched_at_least_one_file /\ LooksLiteral(pattern_str)
                THEN ApplyMark(s, pattern_str, "literal_marked", "literal_error")
                ELSE IF ~s.pattern_matched_at_least_one_file
                THEN [s EXCEPT !.no_match_patterns = <<pattern_str>> \o @]
                ELSE s
    IN  [done EXCEPT !.pidx = @ + 1, !.pc = "loop", !.entries = <<>>, !.eidx = 0]

\* After the entries: the literal fallback or the no-match record, then on
\* to the next pattern.
AfterGlob(s) ==
    LET pattern_str == s.action.patterns[s.pidx]
        done == IF ~s.pattern_matched_at_least_one_file /\ LooksLiteral(pattern_str)
                THEN ApplyMark(s, pattern_str, "literal_marked", "literal_error")
                ELSE IF ~s.pattern_matched_at_least_one_file
                THEN [s EXCEPT !.no_match_patterns = Append(@, pattern_str)]
                ELSE s
    IN  [done EXCEPT !.pidx = @ + 1, !.pc = "loop", !.entries = <<>>, !.eidx = 0]

\* Mutant: the summary is printed and the process returns normally whatever
\* the error count.
ReportNoExit(s) ==
    LET warned == [s EXCEPT !.log =
                      @ \o [i \in DOMAIN s.no_match_patterns |->
                              Line("no_match", 0, s.no_match_patterns[i])]]
    IN  Exited(Say(warned, Line("summary", 0, <<>>)), 0)

\* After the loop: the warnings, the summary, the exit code.
Report(s) ==
    LET warned == [s EXCEPT !.log =
                      @ \o [i \in DOMAIN s.no_match_patterns |->
                              Line("no_match", 0, s.no_match_patterns[i])]]
        summed == Say(warned, Line("summary", 0, <<>>))
    IN  Exited(summed, IF s.error_count > 0 THEN 1 ELSE 0)

(* --------------------------- the behaviours ---------------------------- *)

\* No process is running: the project sits on disk.
Idle(proj, n) == [Process(proj, n, NoAction, TRUE) EXCEPT !.pc = "idle"]

Init ==
    /\ st = Idle(EmptyProject, 0)
    /\ tw = st

\* The twin takes the step the process takes while it is at the same place.
Both(a, b) ==
    /\ st' = a
    /\ tw' = IF tw.pc = st.pc THEN b ELSE tw

\* The binary is started on the persisted project with some action; main
\* loads the project and calls handle_project_action.
Invoke ==
    /\ st.pc = "idle"
    /\ st.invocations < MaxInvocations
    /\ \E action \in ProjectActions, readable \in BOOLEAN :
          /\ st' = Process(st.project, st.invocations + 1, action, readable)
          /\ tw' = st'

\* The process is gone; what it leaves behind is the persisted project.
Terminate ==
    /\ st.pc = "exited"
    /\ st' = Idle(st.project, st.invocations)
    /\ tw' = st'

DoGate ==
    /\ st.pc = "gate"
    /\ \E key \in BOOLEAN : Both(Gate(st, key), Gate(tw, ~key))

At(kind) == st.pc = "dispatch" /\ st.action.kind = kind

DoSetSource == At("SetSource") /\ Both(SetSource(st), SetSource(tw))

DoAddTargetLang == At("AddTargetLang") /\ Both(AddTargetLang(st), AddTargetLang(tw))

DoRemoveTargetLang ==
    At("RemoveTargetLang") /\ Both(RemoveTargetLang(st), RemoveTargetLang(tw))

DoSync == At("Sync") /\ Both(Sync(st), Sync(tw))

DoListTranslatable ==
    At("ListTranslatable") /\ Both(ListTranslatable(st), ListTranslatable(tw))

DoInfo == At("Info") /\ Both(Info(st), Info(tw))

DoTranslateFile ==
    /\ At("TranslateFile")
    /\ \E provider \in ProviderOutcomes :
          Both(TranslateFile(st, provider), TranslateFile(tw, provider))

DoTranslateAllStart ==
    At("TranslateAll") /\ Both(TranslateAllStart(st), TranslateAllStart(tw))

DoTranslateAllFile ==
    /\ st.pc = "translating"
    /\ Len(st.jobs) < Len(st.todo)
    /\ \E provider \in ProviderOutcomes :
          Both(TranslateAllFile(st, provider), TranslateAllFile(tw, provider))

DoTranslateAllReturn ==
    /\ st.pc = "translating"
    /\ Len(st.jobs) = Len(st.todo)
    /\ Both(TranslateAllReturn(st), TranslateAllReturn(tw))

DoMarkStart ==
    /\ st.pc = "dispatch"
    /\ IsMark(st.action)
    /\ Both(MarkStart(st), MarkStart(tw))

DoGlobPattern ==
    /\ st.pc = "loop"
    /\ st.pidx <= Len(st.action.patterns)
    /\ Both(GlobPattern(st), GlobPattern(tw))

DoGlobEntry ==
    /\ st.pc = "entries"
    /\ st.eidx <= Len(st.entries)
    /\ Both(GlobEntry(st), GlobEntry(tw))

DoAfterGlob ==
    /\ st.pc = "entries"
    /\ st.eidx > Len(st.entries)
    /\ Both(AfterGlob(st), AfterGlob(tw))

DoReport ==
    /\ st.pc = "loop"
    /\ st.pidx > Len(st.action.patterns)
    /\ Both(Report(st), Report(tw))

Next ==
    \/ Invoke
    \/ DoGate
    \/ DoSetSource
    \/ DoAddTargetLang
    \/ DoRemoveTargetLang
    \/ DoSync
    \/ DoListTranslatable
    \/ DoInfo
    \/ DoTranslateFile
    \/ DoTranslateAllStart
    \/ DoTranslateAllFile
    \/ DoTranslateAllReturn
    \/ DoMarkStart
    \/ DoGlobPattern
    \/ DoGlobEntry
    \/ DoAfterGlob
    \/ DoReport
    \/ Terminate

Spec == Init /\ [][Next]_vars

(* ------------------------------ claims -------------------------------- *)

\* The patterns the loop of process_file_patterns has finished with.
Processed == 1..(st.pidx - 1)

PatternAt(k) == st.action.patterns[k]

\* The lines of the log written for pattern k, of the given kinds.
LinesOf(k, kinds) == SelectSeq(st.log, LAMBDA l : l.pat = k /\ l.kind \in kinds)

CountLines(kinds) == Len(SelectSeq(st.log, LAMBDA l : l.kind \in kinds))

EntryKinds == {"marked", "mark_error", "entry_error"}
LiteralKinds == {"literal_marked", "literal_error"}
MarkKinds == {"marked", "mark_error"} \cup LiteralKinds
ErrorKinds == {"invalid_pattern", "entry_error", "mark_error", "literal_error"}
SuccessKinds == {"marked", "literal_marked"}
PatternKinds == EntryKinds \cup LiteralKinds \cup {"invalid_pattern"}

GlobMeta == {"*", "?", "[", "{"}

HasMeta(p) == \E i \in DOMAIN p : p[i] \in GlobMeta

\* What glob gives for each pattern of the model, by readability of the
\* directory: whether it accepts the pattern, and the entries it yields.
Accepted == [p \in PatternSet |-> PatternValid(p)]

Expansion ==
    [p \in PatternSet |->
        [r \in BOOLEAN |-> IF PatternValid(p) THEN GlobEntries(p, r) ELSE <<>>]]

Yielded ==
    [p \in PatternSet |->
        [r \in BOOLEAN |->
            LET ok == SelectSeq(Expansion[p][r], LAMBDA e : e.ok)
            IN  [i \in DOMAIN ok |-> ok[i].path]]]

\* The entries and the paths the expansion of p yields in this run.
Entries(p) == Expansion[p][st.dirReadable]

OkPaths(p) == Yielded[p][st.dirReadable]

Occurrences(seq, x) == Cardinality({i \in DOMAIN seq : seq[i] = x})

\* C1: a pattern whose expansion succeeds and yields no path is, when it has
\* none of * ? [ {, passed exactly once to the mark action as a literal path
\* (a failure being counted as an error and never recorded as no match), and
\* is otherwise never passed to the mark action and recorded as no match.
C1_LiteralFallback ==
    IsMark(st.action) =>
      /\ st.error_count = CountLines(ErrorKinds)
      /\ \A k \in Processed :
           LET p == PatternAt(k)
               marks == LinesOf(k, MarkKinds)
           IN  (Accepted[p] /\ OkPaths(p) = <<>>) =>
                 IF HasMeta(p)
                 THEN marks = <<>> /\ p \in Range(st.no_match_patterns)
                 ELSE /\ Len(marks) = 1
                      /\ marks[1].kind \in LiteralKinds
                      /\ marks[1].path = p
                      /\ p \notin Range(st.no_match_patterns)

C1_Witness ==
    /\ st.pc = "exited"
    /\ IsMark(st.action)
    /\ st.action.patterns = <<PLitN, PBrace>>
    /\ LinesOf(1, MarkKinds) = <<Line("literal_error", 1, PLitN)>>
    /\ st.no_match_patterns = <<PBrace>>
    /\ st.error_count = 1

\* Some line or no-match record shows that pattern k was dealt with.
Attempted(k) ==
    \/ LinesOf(k, PatternKinds) # <<>>
    \/ PatternAt(k) \in Range(st.no_match_patterns)

\* C3: in a bulk mark every entry of every pattern is attempted whatever
\* failed before, the summary is the last line and is written only once every
\* pattern has been processed, and the process ends with a non-zero code
\* exactly when some item failed.
C3_CollectErrors ==
    IsMark(st.action) =>
      /\ st.pc # "exited" => st.exit = -1 /\ CountLines({"summary"}) = 0
      /\ st.pc = "exited" =>
           /\ st.pidx = Len(st.action.patterns) + 1
           /\ \A k \in Processed :
                /\ Attempted(k)
                /\ Accepted[PatternAt(k)] =>
                     Len(LinesOf(k, EntryKinds))
                       = Len(Entries(PatternAt(k)))
           /\ st.log[Len(st.log)].kind = "summary"
           /\ CountLines({"summary"}) = 1
           /\ st.success_count = CountLines(SuccessKinds)
           /\ st.error_count = CountLines(ErrorKinds)
           /\ (st.exit = 1) <=> (CountLines(ErrorKinds) > 0)
           /\ (st.exit = 0) <=> (CountLines(ErrorKinds) = 0)

\* A failure on the first item, successes after it, exit code 1.
C3_Witness ==
    /\ st.pc = "exited"
    /\ IsMark(st.action)
    /\ st.log[1].kind \in ErrorKinds
    /\ st.success_count >= 2
    /\ st.error_count >= 2
    /\ st.exit = 1

\* C4: a pattern that glob rejects gives exactly one error line and nothing
\* else: no mark, no literal retry, no no-match record; and the patterns
\* after it are processed.
C4_MalformedSkipped ==
    IsMark(st.action) =>
      /\ \A k \in Processed :
           ~Accepted[PatternAt(k)] =>
             /\ SelectSeq(st.log, LAMBDA l : l.pat = k)
                  = <<Line("invalid_pattern", k, PatternAt(k))>>
             /\ PatternAt(k) \notin Range(st.no_match_patterns)
      /\ st.error_count >= Cardinality({k \in Processed : ~Accepted[PatternAt(k)]})
      /\ st.pc = "exited" =>
           \A k \in 1..Len(st.action.patterns) : k \in Processed /\ Attempted(k)

C4_Witness ==
    /\ st.pc = "exited"
    /\ IsMark(st.action)
    /\ st.action.patterns = <<PBad, PLitA>>
    /\ LinesOf(2, MarkKinds) = <<Line("marked", 2, FileA)>>
    /\ st.error_count = 1

\* C9: a pattern that glob accepts gets neither the literal retry nor the
\* no-match record when the expansion yielded a path, and exactly one of the
\* two when it yielded none (entry errors included); every pattern leaves a
\* counted line or a no-match record.
C9_FallbackOrNoMatch ==
    IsMark(st.action) =>
      \A k \in Processed :
        LET p == PatternAt(k)
            literal == Len(LinesOf(k, LiteralKinds))
            recorded == Occurrences(st.no_match_patterns, p)
            same == Cardinality({j \in Processed : PatternAt(j) = p})
        IN  /\ Attempted(k)
            /\ Accepted[p] =>
                 IF OkPaths(p) # <<>>
                 THEN literal = 0 /\ recorded = 0
                 ELSE \/ literal = 1 /\ recorded = 0
                      \/ literal = 0 /\ recorded = same

\* Every entry of the pattern was a GlobError: it is recorded as no match.
C9_Witness ==
    /\ st.pc = "exited"
    /\ IsMark(st.action)
    /\ ~st.dirReadable
    /\ st.action.patterns = <<PGlob, PLitA>>
    /\ LinesOf(1, PatternKinds) = <<Line("entry_error", 1, PGlob)>>
    /\ st.no_match_patterns = <<PGlob>>
    /\ LinesOf(2, PatternKinds) = <<Line("marked", 2, FileA)>>

\* C2: a translate action started without the key ends at the check with
\* exit code 1 and nothing else done: no line but the error, no call of
\* translate_file or translate_all, no job, the project as loaded; and the
\* environment is read once per invocation however many files are submitted.
C2_AuthBeforeTranslate ==
    IsTranslate(st.action) =>
      /\ st.env_reads = IF st.pc = "gate" THEN 0 ELSE 1
      /\ st.pc = "gate" <=> st.key = "unread"
      /\ st.key = "unset" =>
           /\ st.pc = "exited"
           /\ st.exit = 1
           /\ st.log = <<Line("auth_error", 0, <<>>)>>
           /\ st.todo = <<>> /\ st.jobs = <<>> /\ st.result = <<>>
           /\ st.project = st.loaded

\* Without the key, on a project where translate_all would have had files to
\* submit to a configured language.
C2_Witness ==
    /\ st.pc = "exited"
    /\ st.action.kind = "TranslateAll"
    /\ st.key = "unset"
    /\ st.action.lang \in Range(st.project.langs)
    /\ Len(ListTranslatableFiles(st.project)) = 2
    /\ st.exit = 1

\* C5: translate_all submits every file of list_translatable(), in that
\* order, whatever the outcome of the files before, and what it returns
\* holds the number of successes, the number of failures and the paths that
\* failed.
C5_TranslateAllCollects ==
    (st.action.kind = "TranslateAll" /\ st.pc \in {"translating", "exited"}
        /\ st.key = "set") =>
      LET files == ListTranslatableFiles(st.loaded)
          bad == {i \in DOMAIN st.jobs : st.jobs[i].outcome # ""}
      IN  /\ Len(st.jobs) <= Len(files)
          /\ \A i \in DOMAIN st.jobs : st.jobs[i].source_path = files[i]
          /\ \A i \in DOMAIN st.jobs \ bad :
                <<st.action.lang, files[i]>> \in st.project.translated
          /\ st.pc = "exited" =>
               /\ Len(st.jobs) = Len(files)
               /\ Len(st.result) = 1
               /\ st.result[1].failures = Cardinality(bad)
               /\ st.result[1].successes = Len(files) - Cardinality(bad)
               /\ Range(st.result[1].failed_paths) = {files[i] : i \in bad}
               /\ Len(st.result[1].failed_paths) = Cardinality(bad)

\* The first of two files fails for good; the second is translated.
C5_Witness ==
    /\ st.pc = "exited"
    /\ st.action.kind = "TranslateAll"
    /\ Len(st.jobs) = 2
    /\ st.jobs[1].outcome = "Permanent"
    /\ st.jobs[2].outcome = ""
    /\ st.result = <<[successes |-> 1, failures |-> 1,
                      failed_paths |-> <<st.jobs[1].source_path>>]>>

ManifestPaths(proj) == [i \in DOMAIN proj.manifest |-> proj.manifest[i].path]

AllExpanded ==
    \/ st.pidx > Len(st.action.patterns)
    \/ st.pidx = Len(st.action.patterns) /\ st.pc = "entries"

\* C7 as stated: during a bulk mark the project is as it was loaded until
\* every pattern has been expanded.
C7_NoMarkBeforeAllResolved ==
    IsMark(st.action) => (st.project # st.loaded => AllExpanded)

\* C7, amended: the step that expands a pattern (and the one that reports)
\* leaves the project unchanged; the project changes only where the mark
\* action is applied to an entry or to the literal path.
C7_ExpansionPure ==
    [][(IsMark(st.action) /\ st.pc = "loop") => st'.project = st.project]_vars

\* The second pattern has just been expanded and the first one's paths are
\* already marked.
C7_Witness ==
    /\ IsMark(st.action)
    /\ st.pc = "entries"
    /\ st.pidx = 2
    /\ st.eidx = 1
    /\ st.entries # <<>>
    /\ st.project # st.loaded

\* Whether the mark action succeeds on `path` in this run.
MarkSucceeds(path) == st.loaded.src # NoSource /\ path \in InSource

\* The lines pattern k gives, in order: one per entry of its expansion, then
\* the literal retry if there is one.
ExpectedFor(k) ==
    LET p == PatternAt(k)
        es == Entries(p)
    IN  IF ~Accepted[p] THEN <<Line("invalid_pattern", k, p)>>
        ELSE [i \in DOMAIN es |->
                IF es[i].ok
                THEN Line(IF MarkSucceeds(es[i].path) THEN "marked" ELSE "mark_error",
                          k, es[i].path)
                ELSE Line("entry_error", k, p)]
             \o (IF OkPaths(p) = <<>> /\ ~HasMeta(p)
                 THEN <<Line(IF MarkSucceeds(p) THEN "literal_marked"
                                                ELSE "literal_error", k, p)>>
                 ELSE <<>>)

RECURSIVE ExpectedUpTo(_)
ExpectedUpTo(n) == IF n = 0 THEN <<>> ELSE ExpectedUpTo(n - 1) \o ExpectedFor(n)

\* The warnings, for the patterns without a match among the first n, in the
\* order of the command line.
RECURSIVE WarningsUpTo(_)
WarningsUpTo(n) ==
    IF n = 0 THEN <<>>
    ELSE WarningsUpTo(n - 1)
         \o (IF Accepted[PatternAt(n)] /\ OkPaths(PatternAt(n)) = <<>>
                /\ HasMeta(PatternAt(n))
             THEN <<Line("no_match", 0, PatternAt(n))>>
             ELSE <<>>)

\* C8: the lines of a bulk mark are those of pattern 1, then of pattern 2,
\* ..., each in the order of its expansion, then the no-match warnings in the
\* order of the command line, then the summary: the output is fixed by the
\* patterns, the directory and the project.
C8_ReportOrder ==
    IsMark(st.action) =>
      /\ st.pc = "loop" => st.log = ExpectedUpTo(st.pidx - 1)
      /\ st.pc = "entries" =>
           st.log = ExpectedUpTo(st.pidx - 1)
                      \o SubSeq(ExpectedFor(st.pidx), 1, st.eidx - 1)
      /\ st.pc = "exited" =>
           st.log = ExpectedUpTo(Len(st.action.patterns))
                      \o WarningsUpTo(Len(st.action.patterns))
                      \o <<Line("summary", 0, <<>>)>>

\* Two patterns without a match, of which the second has an entry error.
C8_Witness ==
    /\ st.pc = "exited"
    /\ IsMark(st.action)
    /\ st.log = <<Line("entry_error", 2, PGlob),
                  Line("no_match", 0, PBrace),
                  Line("no_match", 0, PGlob),
                  Line("summary", 0, <<>>)>>

\* C10: for an action other than the two translate actions, the run where
\* the key is set and the run where it is not are, at every step, in the same
\* state: same lines, same exit code, same project.
C10_KeyOnlyGatesTranslate == ~IsTranslate(st.action) => tw = st

\* A command that changed the project and returned 0 without the key.
C10_Witness ==
    /\ st.pc = "exited"
    /\ st.action.kind = "MarkTranslatable"
    /\ st.exit = 0
    /\ st.project # st.loaded
    /\ tw.project = st.project
    /\ tw.exit = 0

====
